---- MODULE Spec2Model ----
(***************************************************************************)
(* Ingredient acquisition pipeline of the shopping assistant:               *)
(*   tools.py   get_ingredients_for_dish and the recipe database helpers    *)
(*   agent.py   OrchestratorAgent.get_ingredients and                       *)
(*              ShoppingListConsolidatorAgent.run                           *)
(*                                                                         *)
(* Python strings are modelled as sequences of one-character strings, so    *)
(* that lower(), strip(), capitalize(), string comparison and the          *)
(* formatting of numbers are computed, not assumed.                         *)
(***************************************************************************)
EXTENDS Integers, Sequences, FiniteSets, TLC

(***************************************************************************)
(* Python str operations (ASCII range).                                     *)
(***************************************************************************)
\* The printable ASCII characters in code point order, from 32 to 126
\* (the entry of code 96 is a placeholder: the grave accent is not used).
AsciiTable ==
  << " ", "!", "\"", "#", "$", "%", "&", "'", "(", ")", "*", "+", ",", "-", ".", "/",
     "0", "1", "2", "3", "4", "5", "6", "7", "8", "9", ":", ";", "<", "=", ">", "?",
     "@", "A", "B", "C", "D", "E", "F", "G", "H", "I", "J", "K", "L", "M", "N", "O",
     "P", "Q", "R", "S", "T", "U", "V", "W", "X", "Y", "Z", "[", "\\", "]", "^", "_",
     "GRAVE", "a", "b", "c", "d", "e", "f", "g", "h", "i", "j", "k", "l", "m", "n", "o",
     "p", "q", "r", "s", "t", "u", "v", "w", "x", "y", "z", "{", "|", "}", "~" >>

\* ord(c)
Ord(c) == 31 + (CHOOSE i \in 1..Len(AsciiTable) : AsciiTable[i] = c)

\* chr(n)
Chr(n) == AsciiTable[n - 31]

LowerChr(c) == IF Ord(c) \in 65..90 THEN Chr(Ord(c) + 32) ELSE c

UpperChr(c) == IF Ord(c) \in 97..122 THEN Chr(Ord(c) - 32) ELSE c

\* str.lower()
LowerStr(s) == [i \in 1..Len(s) |-> LowerChr(s[i])]

RECURSIVE LStrip(_)
LStrip(s) == IF s # <<>> /\ Head(s) = " " THEN LStrip(Tail(s)) ELSE s

RECURSIVE RStrip(_)
RStrip(s) ==
  IF s # <<>> /\ s[Len(s)] = " " THEN RStrip(SubSeq(s, 1, Len(s) - 1)) ELSE s

\* str.strip()
Strip(s) == RStrip(LStrip(s))

\* str.capitalize(): first character upper-cased, the rest lower-cased
Capitalize(s) ==
  [i \in 1..Len(s) |-> IF i = 1 THEN UpperChr(s[i]) ELSE LowerChr(s[i])]

\* a < b for Python strings: lexicographic by code point
RECURSIVE StrLess(_, _)
StrLess(a, b) ==
  IF a = <<>> THEN b # <<>>
  ELSE IF b = <<>> THEN FALSE
  ELSE IF Head(a) = Head(b) THEN StrLess(Tail(a), Tail(b))
  ELSE Ord(Head(a)) < Ord(Head(b))

RECURSIVE InsertSorted(_, _)
InsertSorted(x, s) ==
  IF s = <<>> THEN <<x>>
  ELSE IF StrLess(x, Head(s)) THEN <<x>> \o s
  ELSE <<Head(s)>> \o InsertSorted(x, Tail(s))

\* sorted(list of str): stable, ascending
RECURSIVE SortedStrs(_)
SortedStrs(s) ==
  IF s = <<>> THEN <<>>
  ELSE InsertSorted(s[Len(s)], SortedStrs(SubSeq(s, 1, Len(s) - 1)))

IsDigit(c) == Ord(c) \in 48..57

DigitVal(c) == Ord(c) - 48

\* str(n) for an int n >= 0
RECURSIVE IntStr(_)
IntStr(n) ==
  IF n < 10 THEN <<Chr(48 + n)>> ELSE IntStr(n \div 10) \o <<Chr(48 + (n % 10))>>

(***************************************************************************)
(* Python float: IEEE-754 binary64, round to nearest, ties to even.         *)
(* A positive double is [e, m]: m is the 53-bit significand, most           *)
(* significant bit first (m[1] = 1), and its value is                       *)
(*   m[1]*2^e + m[2]*2^(e-1) + ... + m[53]*2^(e-52).                        *)
(* Signs, infinities, NaN and subnormals are outside the modelled inputs.   *)
(***************************************************************************)
Prec == 53

Zero == [e |-> 0, m |-> <<>>]

Zeros(n) == [i \in 1..n |-> 0]

\* a + b + c for two bit strings of equal length and a carry c; one bit longer
RECURSIVE AddBits(_, _, _)
AddBits(a, b, c) ==
  IF a = <<>> THEN <<c>>
  ELSE LET n == Len(a)
           t == a[n] + b[n] + c
       IN IF t >= 2
          THEN AddBits(SubSeq(a, 1, n - 1), SubSeq(b, 1, n - 1), 1) \o <<t - 2>>
          ELSE AddBits(SubSeq(a, 1, n - 1), SubSeq(b, 1, n - 1), 0) \o <<t>>

\* Round a bit string with leading 1 at exponent e to Prec bits.
RoundBits(bits, e) ==
  IF Len(bits) <= Prec
  THEN [e |-> e, m |-> bits \o Zeros(Prec - Len(bits))]
  ELSE LET K      == SubSeq(bits, 1, Prec)
           guard  == bits[Prec + 1]
           sticky == \E i \in (Prec + 2)..Len(bits) : bits[i] = 1
           up     == guard = 1 /\ (sticky \/ K[Prec] = 1)
           S      == AddBits(K, Zeros(Prec - 1) \o <<1>>, 0)
       IN IF ~up THEN [e |-> e, m |-> K]
          ELSE IF S[1] = 1 THEN [e |-> e + 1, m |-> SubSeq(S, 1, Prec)]
          ELSE [e |-> e, m |-> Tail(S)]

RECURSIVE Normalize(_, _)
Normalize(bits, e) ==
  IF bits = <<>> THEN Zero
  ELSE IF Head(bits) = 0 THEN Normalize(Tail(bits), e - 1)
  ELSE RoundBits(bits, e)

\* x + y for two doubles
FAdd(x, y) ==
  IF x = Zero THEN y
  ELSE IF y = Zero THEN x
  ELSE LET hi == IF x.e >= y.e THEN x ELSE y
           lo == IF x.e >= y.e THEN y ELSE x
           d  == hi.e - lo.e
       IN Normalize(AddBits(hi.m \o Zeros(d), Zeros(d) \o lo.m, 0), hi.e + 1)

\* k quotient bits of r/d (0 <= r < 2d), then one bit telling whether a remainder is left
RECURSIVE DivBits(_, _, _)
DivBits(r, d, k) ==
  IF k = 0 THEN <<IF r > 0 THEN 1 ELSE 0>>
  ELSE LET b == IF r >= d THEN 1 ELSE 0
       IN <<b>> \o DivBits(2 * (r - b * d), d, k - 1)

\* largest e with d * 2^e <= n, for n >= d
RECURSIVE Log2Floor(_, _)
Log2Floor(n, d) == IF 2 * d <= n THEN 1 + Log2Floor(n, 2 * d) ELSE 0

\* smallest k with n * 2^k >= d, for 0 < n
RECURSIVE Log2Ceil(_, _)
Log2Ceil(n, d) == IF n >= d THEN 0 ELSE 1 + Log2Ceil(2 * n, d)

RECURSIVE Pow(_, _)
Pow(b, k) == IF k = 0 THEN 1 ELSE b * Pow(b, k - 1)

\* the double nearest to n/den
FromRatio(n, den) ==
  IF n = 0 THEN Zero
  ELSE IF n >= den
  THEN LET e == Log2Floor(n, den)
       IN RoundBits(DivBits(n, den * Pow(2, e), Prec + 1), e)
  ELSE LET k == Log2Ceil(n, den)
       IN RoundBits(DivBits(n * Pow(2, k), den, Prec + 1), 0 - k)

\* Position of the decimal point in s, or 0
DotPos(s) == IF \E i \in 1..Len(s) : s[i] = "." THEN CHOOSE i \in 1..Len(s) : s[i] = "." ELSE 0

RECURSIVE DigitsVal(_)
DigitsVal(s) ==
  IF s = <<>> THEN 0 ELSE 10 * DigitsVal(SubSeq(s, 1, Len(s) - 1)) + DigitVal(s[Len(s)])

\* Does float(s) succeed?  Unsigned decimal literals, with surrounding blanks.
DecimalLiteral(s) ==
  LET t == Strip(s)
      p == DotPos(t)
      digits == IF p = 0 THEN t ELSE SubSeq(t, 1, p - 1) \o SubSeq(t, p + 1, Len(t))
  IN /\ digits # <<>>
     /\ \A i \in 1..Len(digits) : IsDigit(digits[i])

\* float(s) for a decimal literal
ParseFloat(s) ==
  LET t == Strip(s)
      p == DotPos(t)
      digits == IF p = 0 THEN t ELSE SubSeq(t, 1, p - 1) \o SubSeq(t, p + 1, Len(t))
      frac == IF p = 0 THEN 0 ELSE Len(t) - p
  IN FromRatio(DigitsVal(digits), Pow(10, frac))

RECURSIVE BitsVal(_)
BitsVal(b) == IF b = <<>> THEN 0 ELSE 2 * BitsVal(SubSeq(b, 1, Len(b) - 1)) + b[Len(b)]

\* int(x) for a double below 2^30
Trunc(x) == IF x = Zero \/ x.e < 0 THEN 0 ELSE BitsVal(SubSeq(x.m, 1, x.e + 1))

\* The binary rendering of a double (as float.hex does, in base 2).
BinStr(x) ==
  <<"0", "b">> \o [i \in 1..Len(x.m) |-> Chr(48 + x.m[i])] \o <<"p">>
    \o (IF x.e < 0 THEN <<"-">> \o IntStr(0 - x.e) ELSE IntStr(x.e))

\* str(x) for a double: the shortest decimal literal that float() maps back
\* to x.  It is computed for every double that is the nearest one to a
\* decimal with one fractional digit ("150.0", "0.6"); any other double
\* prints with 16 or 17 significant digits, which are not computed: it is
\* rendered by BinStr, which like str is one-to-one on doubles and starts
\* with a digit.
FloatStr(x) ==
  LET I == Trunc(x)
      J == {j \in 0..9 : FromRatio(10 * I + j, 10) = x}
  IN IF J # {} THEN IntStr(I) \o <<".">> \o IntStr(CHOOSE j \in J : TRUE)
     ELSE BinStr(x)

(***************************************************************************)
(* Values exchanged between the tool, the orchestrator and the             *)
(* consolidator.                                                            *)
(*   - an ingredient is a dict: a record with some of the fields name,      *)
(*     quantity, unit, each a Python string;                                *)
(*   - an error message is a str, kept as [msg |-> text];                   *)
(*   - a dict[str, list] is a sequence of [dish, ingredients] items in      *)
(*     insertion order, with unique dish keys.                              *)
(***************************************************************************)
\* isinstance(v, str), for the element of a result list
IsStr(v) == "msg" \in DOMAIN v

\* d.get(k, "")
Get(d, k) == IF k \in DOMAIN d THEN d[k] ELSE <<>>

\* d[k] = v  on an insertion-ordered dict
DictSet(d, k, v) ==
  IF \E i \in 1..Len(d) : d[i].dish = k
  THEN [i \in 1..Len(d) |-> IF d[i].dish = k THEN [dish |-> k, ingredients |-> v] ELSE d[i]]
  ELSE Append(d, [dish |-> k, ingredients |-> v])

(***************************************************************************)
(* agent.py: _is_numeric and ShoppingListConsolidatorAgent.run              *)
(***************************************************************************)
\* _is_numeric(s) for an element of "quantities": a float, or a str
IsNumeric(q) == IF "f" \in DOMAIN q THEN TRUE ELSE DecimalLiteral(q.s)

\* lines 28-43: one ingredient added to consolidated_dict, a sequence of
\* [key, quantities, units] in insertion order
Accumulate(cd, ingredient) ==
  LET name     == Strip(LowerStr(Get(ingredient, "name")))
      quantity == Get(ingredient, "quantity")
      unit     == Strip(LowerStr(Get(ingredient, "unit")))
      cd1      == IF \E i \in 1..Len(cd) : cd[i].key = name
                  THEN cd
                  ELSE Append(cd, [key |-> name, quantities |-> <<>>, units |-> {}])
  IN IF name = <<>> THEN cd
     ELSE IF DecimalLiteral(quantity) /\ unit # <<>>
     THEN [i \in 1..Len(cd1) |->
            IF cd1[i].key = name
            THEN [key |-> name,
                  quantities |-> Append(cd1[i].quantities, [f |-> ParseFloat(quantity)]),
                  units |-> cd1[i].units \cup {unit}]
            ELSE cd1[i]]
     ELSE IF quantity # <<>>
     THEN [i \in 1..Len(cd1) |->
            IF cd1[i].key = name
            THEN [cd1[i] EXCEPT !.quantities = Append(@, [s |-> quantity])]
            ELSE cd1[i]]
     ELSE cd1

\* line 28: for ingredient in ingredients
RECURSIVE ForIngredients(_, _)
ForIngredients(cd, ingredients) ==
  IF ingredients = <<>> THEN cd
  ELSE ForIngredients(Accumulate(cd, Head(ingredients)), Tail(ingredients))

\* lines 23-26: for dish, ingredients in all_ingredients.items()
RECURSIVE ForDishes(_, _)
ForDishes(cd, items) ==
  IF items = <<>> THEN cd
  ELSE LET ingredients == Head(items).ingredients
       IN IF ingredients = <<>> \/ IsStr(ingredients[1])
          THEN ForDishes(cd, Tail(items))
          ELSE ForDishes(ForIngredients(cd, ingredients), Tail(items))

\* sum(...) of line 49: 0 + q1 + q2 + ..., added left to right in double
\* arithmetic (the summation of CPython up to 3.11)
RECURSIVE SumFloats(_, _)
SumFloats(acc, qs) ==
  IF qs = <<>> THEN acc ELSE SumFloats(FAdd(acc, Head(qs).f), Tail(qs))

\* lines 48-53: the list item of one consolidated_dict entry, or the
\* TypeError of adding a str to a number
FormatEntry(entry) ==
  IF Cardinality(entry.units) = 1
     /\ \A i \in 1..Len(entry.quantities) : IsNumeric(entry.quantities[i])
  THEN IF \E i \in 1..Len(entry.quantities) : "s" \in DOMAIN entry.quantities[i]
       THEN [exc |-> "TypeError", item |-> <<>>]
       ELSE [exc |-> "none",
             item |-> FloatStr(SumFloats(Zero, entry.quantities)) \o <<" ">>
                        \o (CHOOSE u \in entry.units : TRUE) \o <<" ">>
                        \o Capitalize(entry.key)]
  ELSE [exc |-> "none", item |-> Capitalize(entry.key)]

\* run(all_ingredients): [exc |-> "none", list |-> the shopping list], or the
\* exception the call raises
Run(all_ingredients) ==
  LET cd      == ForDishes(<<>>, all_ingredients)
      keys    == SortedStrs([i \in 1..Len(cd) |-> cd[i].key])
      entryOf(k) == cd[CHOOSE i \in 1..Len(cd) : cd[i].key = k]
      formatted == [i \in 1..Len(keys) |-> FormatEntry(entryOf(keys[i]))]
  IN IF \E i \in 1..Len(formatted) : formatted[i].exc # "none"
     THEN [exc |-> "TypeError", list |-> <<>>]
     ELSE [exc |-> "none",
           list |-> SortedStrs([i \in 1..Len(formatted) |-> formatted[i].item])]

(***************************************************************************)
(* Bounds and the modelled inputs.                                          *)
(***************************************************************************)
\* calls of get_ingredients_for_dish in one run of the program, over all the
\* calls of get_ingredients
MaxFetches == 2

\* search results handed to the candidate loop (max_results=5 in the code)
MaxCandidates == 2

soup == <<"s", "o", "u", "p">>

SoupCap == <<"S", "o", "u", "p">>

corba == <<"c", "o", "r", "b", "a">>

carrot == <<"c", "a", "r", "r", "o", "t">>

CarrotCap == <<"C", "a", "r", "r", "o", "t">>

salt == <<"s", "a", "l", "t">>

blank == <<" ">>

\* the dish names a caller passes to get_ingredients
DishNames == {soup, corba}

DishLists == UNION {[1..n -> DishNames] : n \in 1..MaxFetches}

\* what the text-structuring chain can hand back for one page
ListA == << [name |-> carrot, quantity |-> <<"1", "0", "0">>, unit |-> <<"g">>] >>

ListNoName == << [name |-> <<" ">>, quantity |-> <<"1">>, unit |-> <<"g">>] >>

\* a JSON array of plain strings
ListOfStr == << [msg |-> <<"100 g carrot">>] >>

StructOutputs ==
  { [kind |-> "raise", isList |-> FALSE, value |-> <<>>],
    [kind |-> "value", isList |-> FALSE, value |-> <<>>],
    [kind |-> "value", isList |-> TRUE, value |-> <<>>],
    [kind |-> "value", isList |-> TRUE, value |-> ListA],
    [kind |-> "value", isList |-> TRUE, value |-> ListNoName],
    [kind |-> "value", isList |-> TRUE, value |-> ListOfStr] }

\* A page: did the request succeed, its application/ld+json scripts, its
\* schema.org/Recipe microdata scope, its "ingredients" headings and the
\* sections the CSS selectors match, each in document order.
jl == <<"j">>

jpad == <<" ", "j">>

ml == <<"m">>

hl == <<"h">>

hpad == <<"h", " ">>

cl == <<"c">>

NoScope == [scope |-> FALSE, items |-> <<>>]

NoPage ==
  [status |-> "ok", scripts |-> <<>>, microdata |-> NoScope, headings |-> <<>>,
   sections |-> <<>>]

\* a script whose JSON is one node, at the main level or in an @graph
JsonNode(place, type, hasField, ings) ==
  [kind |-> "json", place |-> place, type |-> type, hasField |-> hasField,
   allStr |-> TRUE, ings |-> ings]

ScriptNoString == [JsonNode("top", "", FALSE, <<>>) EXCEPT !.kind = "nostring"]

ScriptInvalid == [JsonNode("top", "", FALSE, <<>>) EXCEPT !.kind = "invalid"]

\* "recipeIngredient": ["j", null]
ScriptNullLine == [JsonNode("top", "Recipe", TRUE, <<jl>>) EXCEPT !.allStr = FALSE]

Scripts ==
  { ScriptNoString, ScriptInvalid, ScriptNullLine,
    JsonNode("top", "Recipe", TRUE, <<>>),
    JsonNode("top", "Recipe", TRUE, <<blank>>),
    JsonNode("top", "Recipe", TRUE, <<jl>>),
    JsonNode("top", "Recipe", TRUE, <<blank, jpad>>),
    JsonNode("graph", "Recipe", TRUE, <<jl>>),
    JsonNode("top", "[Recipe]", TRUE, <<jl>>),
    JsonNode("top", "Recipe", FALSE, <<>>),
    JsonNode("top", "Article", FALSE, <<>>) }

Microdata ==
  { NoScope,
    [scope |-> TRUE, items |-> <<>>],
    [scope |-> TRUE, items |-> <<blank>>],
    [scope |-> TRUE, items |-> <<ml>>] }

\* a heading: is a ul/ol among its siblings before the next heading, and the
\* texts of the li of that list
Headings ==
  { [list |-> FALSE, items |-> <<>>],
    [list |-> TRUE, items |-> <<hl>>],
    [list |-> TRUE, items |-> <<hl, hpad>>],
    [list |-> TRUE, items |-> <<blank, blank>>] }

Sections ==
  { [items |-> <<cl>>], [items |-> <<cl, cl>>], [items |-> <<blank, blank>>] }

SeqsUpTo(S, n) == UNION {[1..k -> S] : k \in 0..n}

PageRequestException == [NoPage EXCEPT !.status = "RequestException"]

PageBlankList == [NoPage EXCEPT !.scripts = <<JsonNode("top", "Recipe", TRUE, <<blank>>)>>]

PageList == [NoPage EXCEPT !.scripts = <<JsonNode("top", "Recipe", TRUE, <<jl>>)>>]

\* the result pages of the fetch pipeline
Pages == {PageRequestException, NoPage, PageBlankList, PageList}

(***************************************************************************)
(* tools.py: helpers of get_ingredients_for_dish                            *)
(***************************************************************************)
\* GoogleTranslator(source='auto', target='en').translate on the modelled names
Translate(text) == IF text = corba THEN SoupCap ELSE text

\* lines 183-190; t is what the translation call does: "ok", "empty" (it
\* returns nothing) or "raise"
CacheKey(dish_name, t) ==
  IF t = "raise" THEN LowerStr(Strip(dish_name))
  ELSE LET translated_dish_name ==
             IF t = "empty" THEN Strip(dish_name) ELSE Translate(Strip(dish_name))
       IN LowerStr(translated_dish_name)

Keys == {CacheKey(d, t) : d \in DishNames, t \in {"ok", "empty", "raise"}}

NoDoc == [found |-> FALSE, ingredients |-> <<>>]

Doc(l) == [found |-> TRUE, ingredients |-> l]

\* _get_recipe_from_db with the lookup left out: it never finds a recipe
GetRecipeFromDbNoRead(coll, recipes, dish_name) == NoDoc

\* _get_recipe_from_db: None (NoDoc) or the stored ingredients
GetRecipeFromDb(coll, recipes, dish_name) ==
  IF coll = "None" THEN NoDoc ELSE recipes[dish_name]

\* _save_recipe_to_db with a filter that matches every document
SaveRecipeToDbEveryKey(coll, recipes, dish_name, ingredients, upd) ==
  [k \in DOMAIN recipes |-> Doc(ingredients)]

\* _save_recipe_to_db; upd is what update_one does: "ok" or "raise"
SaveRecipeToDb(coll, recipes, dish_name, ingredients, upd) ==
  IF coll = "None" THEN recipes
  ELSE IF upd = "raise" THEN recipes
  ELSE [recipes EXCEPT ![dish_name] = Doc(ingredients)]

\* [x for x in ls if x.strip()]
NonBlank(ls) == SelectSeq(ls, LAMBDA l : Strip(l) # <<>>)

\* [item.get_text(strip=True) for item in items if item.get_text(strip=True)]
TextsOf(items) == NonBlank([i \in 1..Len(items) |-> Strip(items[i])])

\* lines 106-134: the first script with a Recipe node that has the field; a
\* script without text, one that is not JSON and one whose list has an
\* element without strip() are passed over
RECURSIVE JsonLd(_, _)
JsonLd(scripts, i) ==
  IF i > Len(scripts) THEN NoDoc
  ELSE LET script == scripts[i]
       IN IF script.kind # "json" THEN JsonLd(scripts, i + 1)
          ELSE IF script.type = "Recipe" /\ script.hasField
          THEN IF script.allStr THEN Doc(NonBlank(script.ings))
               ELSE JsonLd(scripts, i + 1)
          ELSE JsonLd(scripts, i + 1)

\* lines 136-142
MicrodataList(recipe_scope) ==
  IF recipe_scope.scope /\ recipe_scope.items # <<>>
  THEN Doc(TextsOf(recipe_scope.items))
  ELSE NoDoc

\* lines 144-155
RECURSIVE HeadingList(_, _)
HeadingList(headings, i) ==
  IF i > Len(headings) THEN NoDoc
  ELSE IF headings[i].list /\ Len(headings[i].items) > 1
  THEN Doc(TextsOf(headings[i].items))
  ELSE HeadingList(headings, i + 1)

\* lines 157-167
RECURSIVE CssList(_, _)
CssList(ingredient_sections, i) ==
  IF i > Len(ingredient_sections) THEN NoDoc
  ELSE IF Len(ingredient_sections[i].items) > 1
  THEN Doc(TextsOf(ingredient_sections[i].items))
  ELSE CssList(ingredient_sections, i + 1)

\* _find_ingredients_from_url: None (NoDoc) or a list of lines
FindIngredientsFromUrl(page) ==
  IF page.status = "RequestException" THEN NoDoc
  ELSE IF JsonLd(page.scripts, 1).found THEN JsonLd(page.scripts, 1)
  ELSE IF MicrodataList(page.microdata).found THEN MicrodataList(page.microdata)
  ELSE IF HeadingList(page.headings, 1).found THEN HeadingList(page.headings, 1)
  ELSE CssList(page.sections, 1)

Return(v) == [kind |-> "return", value |-> v, type |-> "", text |-> ""]

Raise(type, text) == [kind |-> "raise", value |-> <<>>, type |-> type, text |-> text]

NoResult == [kind |-> "none", value |-> <<>>, type |-> "", text |-> ""]

NotFoundText == "No recipe found on the internet"

UnclearText == "an ingredient list could not be clearly found"

\* line 176 as "except ValueError"
CatchesValueErrorOnly(type) == type = "ValueError"

\* agent.py line 176: except Exception
Catches(type) ==
  type \in {"ValueError", "UnboundLocalError", "PyMongoError", "DDGSException",
            "OutputParserException"}

\* agent.py line 179
ErrorMessage(e) == [msg |-> <<"An error occurred: ", e.text>>]

\* main.py line 118, on the first element of a result list
IsErrorMessage(v) == IsStr(v) /\ v.msg[1] = "An error occurred: "

NotRun == [exc |-> "not run", list |-> <<>>]

(***************************************************************************)
(* translator.py: translate_ingredient_list                                 *)
(***************************************************************************)
tuz == <<"t", "u", "z">>

su == <<"s", "u">>

water == <<"w", "a", "t", "e", "r">>

\* what the translation service makes of one line
TranslateLine(l) == IF l = tuz THEN salt ELSE IF l = su THEN water ELSE l

\* the service: does translate_batch raise, and for which lines does it give
\* None?
NoBatch == [raises |-> FALSE, fails |-> {}]

\* non_empty_items[item] = i on the dict of line 16, a sequence of [item, i]
\* in insertion order
PutItem(d, item, i) ==
  IF \E j \in 1..Len(d) : d[j].item = item
  THEN [j \in 1..Len(d) |-> IF d[j].item = item THEN [item |-> item, i |-> i] ELSE d[j]]
  ELSE Append(d, [item |-> item, i |-> i])

\* line 16: {item: i for i, item in enumerate(ingredients) if item.strip()}
RECURSIVE NonEmptyItems(_, _, _)
NonEmptyItems(d, lines, i) ==
  IF i > Len(lines) THEN d
  ELSE NonEmptyItems(IF Strip(lines[i]) # <<>> THEN PutItem(d, lines[i], i) ELSE d,
                     lines, i + 1)

\* line 26: translate_batch(originals), None as the empty text
TranslateBatch(originals, b) ==
  [j \in 1..Len(originals) |->
     IF originals[j] \in b.fails THEN <<>> ELSE TranslateLine(originals[j])]

\* lines 32-36: the translations are put back at the recorded positions
RECURSIVE PlaceBack(_, _, _, _)
PlaceBack(result_list, non_empty_items, translated_batch, j) ==
  IF j > Len(non_empty_items) THEN result_list
  ELSE LET original_index == non_empty_items[j].i
           translated == translated_batch[j]
       IN PlaceBack(IF translated # <<>>
                    THEN [result_list EXCEPT ![original_index] = translated]
                    ELSE result_list,
                    non_empty_items, translated_batch, j + 1)

\* lines 7-42
TranslateIngredientList(lines, b) ==
  IF lines = <<>> THEN <<>>
  ELSE LET non_empty_items == NonEmptyItems(<<>>, lines, 1)
           originals == [j \in 1..Len(non_empty_items) |-> non_empty_items[j].item]
       IN IF non_empty_items = <<>> THEN lines
          ELSE IF b.raises THEN lines
          ELSE PlaceBack(lines, non_empty_items, TranslateBatch(originals, b), 1)

(***************************************************************************)
(* State.                                                                   *)
(***************************************************************************)
VARIABLES
  store,           \* the recipes collection: cache key -> document
  pc,              \* where the program is
  fetches,         \* calls of get_ingredients_for_dish asked for so far
  dish_names,      \* get_ingredients: its argument
  idx,             \* get_ingredients: position of the loop of line 170
  results,         \* get_ingredients: the dict it builds
  cache_key,       \* get_ingredients_for_dish: cache_key
  translated,      \* get_ingredients_for_dish: is translated_dish_name bound?
  collection,      \* get_ingredients_for_dish: recipes_collection, "None" or "ok"
  lookup,          \* what the database lookup of this call did
  nresults,        \* get_ingredients_for_dish: len(results) of the web search
  cand,            \* get_ingredients_for_dish: position of the loop of line 207
  searched,        \* did this call issue a web search?
  pages,           \* page requests issued by this call
  structcall,      \* what the structuring chain did for the last candidate
  ret,             \* what the tool call returned or raised
  reqSearches,     \* web searches of the current request, per dish name
  reqKeys,         \* cache keys computed in the current request
  reqZero,         \* dish names whose last web search of this request found nothing
  firstSuccess,    \* per cache key, the first list a call returned
  savedSuccess,    \* per cache key, the first returned list that was in the store
  all_ingredients, \* ShoppingListConsolidatorAgent.run: its argument
  shopping_list,   \* what run returned
  first_list,      \* what the first call of run on these entries returned
  cpc,             \* position of the consolidation harness
  user_input,      \* main: what was entered last at the REMOVE or ADD prompt
  tr_input,        \* translate_ingredient_list: its argument
  tr_batch,        \* what the translation service does with the batch
  tr_result,       \* what translate_ingredient_list returned
  tpc,             \* position of the translation harness
  response,        \* _find_ingredients_from_url: the page behind the URL
  extracted,       \* what _find_ingredients_from_url returned
  epc              \* position of the extraction harness

vars == << store, pc, fetches, dish_names, idx, results, cache_key, translated,
           collection, lookup, nresults, cand, searched, pages, structcall, ret,
           reqSearches, reqKeys, reqZero, firstSuccess, savedSuccess,
           all_ingredients, shopping_list, first_list, cpc, user_input,
           tr_input, tr_batch, tr_result, tpc, response, extracted, epc >>

toolVars == << cache_key, translated, collection, lookup, nresults, cand, searched,
               pages, structcall, ret >>

requestVars == << fetches, dish_names, idx, results >>

ghostVars == << reqSearches, reqKeys, reqZero, firstSuccess, savedSuccess >>

consVars == << all_ingredients, shopping_list, first_list, cpc, user_input >>

harnessVars == << tr_input, tr_batch, tr_result, tpc, response, extracted, epc >>

\* the harnesses of the helper functions are not in use
HarnessOff ==
  /\ tr_input = <<>>
  /\ tr_batch = NoBatch
  /\ tr_result = <<>>
  /\ tpc = "off"
  /\ response = NoPage
  /\ extracted = NoDoc
  /\ epc = "off"

dish_name == dish_names[idx]

Init ==
  /\ store = [k \in Keys |-> NoDoc]
  /\ pc = "idle"
  /\ fetches = 0
  /\ dish_names = <<>>
  /\ idx = 1
  /\ results = <<>>
  /\ cache_key = <<>>
  /\ translated = FALSE
  /\ collection = "None"
  /\ lookup = "none"
  /\ nresults = 0
  /\ cand = 1
  /\ searched = FALSE
  /\ pages = 0
  /\ structcall = "none"
  /\ ret = NoResult
  /\ reqSearches = [d \in DishNames |-> 0]
  /\ reqKeys = {}
  /\ reqZero = {}
  /\ firstSuccess = [k \in Keys |-> NoDoc]
  /\ savedSuccess = [k \in Keys |-> NoDoc]
  /\ all_ingredients = <<>>
  /\ shopping_list = NotRun
  /\ first_list = NotRun
  /\ cpc = "off"
  /\ user_input = <<>>
  /\ HarnessOff

(***************************************************************************)
(* agent.py: OrchestratorAgent.get_ingredients, lines 160-170               *)
(***************************************************************************)
GetIngredients(names) ==
  /\ pc = "idle"
  /\ fetches + Len(names) <= MaxFetches
  /\ fetches' = fetches + Len(names)
  /\ dish_names' = names
  /\ results' = <<>>
  /\ idx' = 1
  /\ pc' = "invoke"
  /\ UNCHANGED << store, toolVars, ghostVars, consVars, harnessVars >>

(***************************************************************************)
(* tools.py: get_ingredients_for_dish                                       *)
(***************************************************************************)
\* lines 183-190: the cache key
NormalizeKey(t) ==
  /\ pc = "invoke"
  /\ cache_key' = CacheKey(dish_name, t)
  /\ translated' = (t # "raise")
  /\ reqKeys' = reqKeys \cup {cache_key'}
  /\ collection' = "None"
  /\ lookup' = "none"
  /\ nresults' = 0
  /\ cand' = 1
  /\ searched' = FALSE
  /\ pages' = 0
  /\ structcall' = "none"
  /\ ret' = NoResult
  /\ pc' = "lookup"
  /\ UNCHANGED << store, requestVars, reqSearches, reqZero, firstSuccess,
                  savedSuccess, consVars, harnessVars >>

\* The call ends: it returns or raises r.
Finish(r) ==
  /\ ret' = r
  /\ pc' = "tool_done"

\* lines 192-196: conn is what _get_db_collection gives, find what find_one does
CacheLookup(conn, find) ==
  /\ pc = "lookup"
  /\ collection' = conn
  /\ LET db_ingredients == GetRecipeFromDb(conn, store, cache_key)
     IN IF conn = "ok" /\ find = "raise"
        THEN /\ lookup' = "error"
             /\ Finish(Raise("PyMongoError", "find_one failed"))
        ELSE IF db_ingredients.found /\ db_ingredients.ingredients # <<>>
        THEN /\ lookup' = "hit"
             /\ Finish(Return(db_ingredients.ingredients))
        ELSE /\ lookup' = IF conn = "None" THEN "none" ELSE "miss"
             /\ pc' = "search"
             /\ UNCHANGED ret
  /\ UNCHANGED << store, requestVars, cache_key, translated, nresults, cand, searched,
                  pages, structcall, ghostVars, consVars, harnessVars >>

\* lines 200-205: ddgs is what the search call does, "ok" or "raise", and n
\* the number of results it gives
WebSearch(ddgs, n) ==
  /\ pc = "search"
  /\ searched' = TRUE
  /\ reqSearches' = [reqSearches EXCEPT ![dish_name] = @ + 1]
  /\ IF ddgs = "raise"
     THEN /\ Finish(Raise("DDGSException", "search failed"))
          /\ reqZero' = reqZero \ {dish_name}
          /\ UNCHANGED << nresults, cand >>
     ELSE IF n = 0
     THEN /\ IF translated
             THEN Finish(Raise("ValueError", NotFoundText))
             ELSE Finish(Raise("UnboundLocalError",
                               "cannot access local variable 'translated_dish_name'"))
          /\ reqZero' = reqZero \cup {dish_name}
          /\ UNCHANGED << nresults, cand >>
     ELSE /\ nresults' = n
          /\ cand' = 1
          /\ pc' = "candidates"
          /\ reqZero' = reqZero \ {dish_name}
          /\ UNCHANGED ret
  /\ UNCHANGED << store, requestVars, cache_key, translated, collection, lookup, pages,
                  structcall, reqKeys, firstSuccess, savedSuccess, consVars, harnessVars >>

\* the chain is not called
NoOutput == [kind |-> "none", isList |-> FALSE, value |-> <<>>]

\* line 218-224: is the output a non-empty list, which is saved?
Saves(out) == out.kind = "value" /\ out.isList /\ out.value # <<>>

\* Is the structuring output an array of objects with a non-empty name?
ValidOutput(out) ==
  /\ out.kind = "value"
  /\ out.isList
  /\ \A i \in 1..Len(out.value) : Strip(Get(out.value[i], "name")) # <<>>

\* lines 207-227: one candidate URL; page is what the page gives, out what the
\* structuring chain does, upd what update_one does
TryCandidate(page, out, upd) ==
  /\ pc = "candidates"
  /\ cand <= nresults
  /\ pages' = pages + 1
  /\ LET raw_ingredients == FindIngredientsFromUrl(page)
         clean_ingredients == IF out.kind = "value" /\ out.isList THEN out.value ELSE <<>>
     IN IF ~(raw_ingredients.found /\ raw_ingredients.ingredients # <<>>)
        THEN /\ structcall' = "none"
             /\ cand' = cand + 1
             /\ UNCHANGED << store, pc, ret >>
        ELSE IF out.kind = "raise"
        THEN /\ structcall' = "failed"
             /\ Finish(Raise("OutputParserException", "invalid json output"))
             /\ UNCHANGED << store, cand >>
        ELSE IF clean_ingredients = <<>>
        THEN /\ structcall' = IF ValidOutput(out) THEN "empty" ELSE "failed"
             /\ cand' = cand + 1
             /\ UNCHANGED << store, pc, ret >>
        ELSE /\ structcall' = IF ValidOutput(out) THEN "ok" ELSE "failed"
             /\ store' = SaveRecipeToDb(collection, store, cache_key, clean_ingredients, upd)
             /\ Finish(Return(clean_ingredients))
             /\ UNCHANGED cand
  /\ UNCHANGED << requestVars, cache_key, translated, collection, lookup, nresults,
                  searched, ghostVars, consVars, harnessVars >>

\* lines 229-230: no candidate gave a list
Exhausted ==
  /\ pc = "candidates"
  /\ cand > nresults
  /\ Finish(Raise("ValueError", UnclearText))
  /\ UNCHANGED << store, requestVars, cache_key, translated, collection, lookup,
                  nresults, cand, searched, pages, structcall, ghostVars, consVars, harnessVars >>

(***************************************************************************)
(* agent.py: OrchestratorAgent.get_ingredients, lines 171-182               *)
(***************************************************************************)
\* the loop of line 170 moves on, or get_ingredients returns
Advance ==
  /\ idx' = idx + 1
  /\ pc' = IF idx + 1 > Len(dish_names) THEN "returned" ELSE "invoke"

\* the locals of get_ingredients_for_dish are gone once its result is taken
DropToolLocals ==
  /\ cache_key' = <<>>
  /\ translated' = FALSE
  /\ collection' = "None"
  /\ lookup' = "none"
  /\ nresults' = 0
  /\ cand' = 1
  /\ searched' = FALSE
  /\ pages' = 0
  /\ structcall' = "none"
  /\ ret' = NoResult

\* lines 173-174: the tool returned
StoreResult ==
  /\ pc = "tool_done"
  /\ ret.kind = "return"
  /\ results' = DictSet(results, dish_name, ret.value)
  /\ firstSuccess' =
       IF firstSuccess[cache_key].found THEN firstSuccess
       ELSE [firstSuccess EXCEPT ![cache_key] = Doc(ret.value)]
  /\ savedSuccess' =
       IF ~savedSuccess[cache_key].found /\ store[cache_key] = Doc(ret.value)
       THEN [savedSuccess EXCEPT ![cache_key] = Doc(ret.value)]
       ELSE savedSuccess
  /\ Advance
  /\ DropToolLocals
  /\ UNCHANGED << store, fetches, dish_names, reqSearches, reqKeys, reqZero,
                  consVars, harnessVars >>

\* lines 176-181: the tool raised
CatchException ==
  /\ pc = "tool_done"
  /\ ret.kind = "raise"
  /\ IF Catches(ret.type)
     THEN /\ results' = DictSet(results, dish_name, <<ErrorMessage(ret)>>)
          /\ Advance
     ELSE /\ pc' = "crashed"
          /\ UNCHANGED << results, idx >>
  /\ DropToolLocals
  /\ UNCHANGED << store, fetches, dish_names, ghostVars, consVars, harnessVars >>

(***************************************************************************)
(* main.py: lines 110-171                                                   *)
(***************************************************************************)
\* lines 114-126: has_successful_recipes
HasSuccessfulRecipes ==
  \E i \in 1..Len(results) :
    /\ results[i].ingredients # <<>>
    /\ ~IsErrorMessage(results[i].ingredients[1])

\* lines 128-134: the results are consolidated
ConsolidateList ==
  /\ pc = "returned"
  /\ HasSuccessfulRecipes
  /\ all_ingredients' = results
  /\ shopping_list' = Run(results)
  /\ pc' = IF Run(results).exc = "none" THEN "modify" ELSE "terminated"
  /\ UNCHANGED << store, requestVars, toolVars, ghostVars, first_list, cpc,
                  user_input, harnessVars >>

\* lines 26-37: back at the prompt, dish_names and responses are fresh
NextPrompt ==
  /\ pc' = "idle"
  /\ dish_names' = <<>>
  /\ results' = <<>>
  /\ idx' = 1
  /\ reqSearches' = [d \in DishNames |-> 0]
  /\ reqKeys' = {}
  /\ reqZero' = {}
  /\ all_ingredients' = <<>>
  /\ shopping_list' = NotRun
  /\ user_input' = <<>>
  /\ UNCHANGED << store, fetches, toolVars, firstSuccess, savedSuccess, first_list, cpc,
                  harnessVars >>

\* lines 128-131: no recipe was found
NoShoppingList ==
  /\ pc = "returned"
  /\ ~HasSuccessfulRecipes
  /\ NextPrompt

\* what the user can enter at the REMOVE and ADD prompts: nothing, an entry
\* of the list as it is shown, or an ingredient name
UserInputs ==
  {<<>>, carrot} \cup {shopping_list.list[i] : i \in 1..Len(shopping_list.list)}

\* translate_ingredient_list(items, source='tr') of lines 146 and 156: the
\* function has the one parameter ingredients, the call raises TypeError
\* before its body runs, and main has no handler
TranslateWithSource(items) ==
  Raise("TypeError",
        "translate_ingredient_list() got an unexpected keyword argument 'source'")

\* lines 141-149: items to remove
RemoveItems(to_remove_input) ==
  /\ pc = "modify"
  /\ user_input' = to_remove_input
  /\ pc' = IF Strip(to_remove_input) = <<>> THEN "modify_add"
           ELSE IF TranslateWithSource(<<Strip(to_remove_input)>>).kind = "raise"
           THEN "terminated"
           ELSE "modify_add"
  /\ UNCHANGED << store, requestVars, toolVars, ghostVars, all_ingredients,
                  shopping_list, first_list, cpc, harnessVars >>

\* lines 152-162: items to add
AddItems(to_add_input) ==
  /\ pc = "modify_add"
  /\ user_input' = to_add_input
  /\ pc' = IF Strip(to_add_input) = <<>> THEN "modify_done"
           ELSE IF TranslateWithSource(<<Strip(to_add_input)>>).kind = "raise"
           THEN "terminated"
           ELSE "modify_done"
  /\ UNCHANGED << store, requestVars, toolVars, ghostVars, all_ingredients,
                  shopping_list, first_list, cpc, harnessVars >>

\* lines 165-167: the user is not finished, the loop of line 138 goes round
ModifyAgain ==
  /\ pc = "modify_done"
  /\ pc' = "modify"
  /\ user_input' = <<>>
  /\ UNCHANGED << store, requestVars, toolVars, ghostVars, all_ingredients,
                  shopping_list, first_list, cpc, harnessVars >>

\* lines 165-171: the user is finished with the list
FinishList ==
  /\ pc = "modify_done"
  /\ NextPrompt

Next ==
  \/ \E names \in DishLists : GetIngredients(names)
  \/ \E t \in {"ok", "empty", "raise"} : NormalizeKey(t)
  \/ \E conn \in {"None", "ok"} :
       \E find \in (IF conn = "ok" THEN {"ok", "raise"} ELSE {"ok"}) :
         CacheLookup(conn, find)
  \/ \E ddgs \in {"ok", "raise"} :
       \E n \in (IF ddgs = "ok" THEN 0..MaxCandidates ELSE {0}) : WebSearch(ddgs, n)
  \/ \E page \in Pages :
       \E out \in (IF FindIngredientsFromUrl(page).ingredients # <<>>
                   THEN StructOutputs ELSE {NoOutput}) :
         \E upd \in (IF Saves(out) THEN {"ok", "raise"} ELSE {"ok"}) :
           TryCandidate(page, out, upd)
  \/ Exhausted
  \/ StoreResult
  \/ CatchException
  \/ ConsolidateList
  \/ NoShoppingList
  \/ \E to_remove_input \in UserInputs : RemoveItems(to_remove_input)
  \/ \E to_add_input \in UserInputs : AddItems(to_add_input)
  \/ ModifyAgain
  \/ FinishList

Spec == Init /\ [][Next]_vars

(***************************************************************************)
(* ShoppingListConsolidatorAgent.run on its own: the argument is drawn from *)
(* the result mappings get_ingredients can build out of a few ingredient    *)
(* records, the call is made, and the same entries are handed in again in   *)
(* another iteration order.                                                 *)
(***************************************************************************)
\* ingredient records and failed or empty entries in one argument of run
MaxRecords == 3

IngredientRecords ==
  { [name |-> carrot, quantity |-> <<"1", "0", "0">>, unit |-> <<"g">>],
    [name |-> CarrotCap, quantity |-> <<"5", "0">>, unit |-> <<"g">>],
    [name |-> carrot, quantity |-> <<"0", ".", "1">>, unit |-> <<"g">>],
    [name |-> carrot, quantity |-> <<"5", "0">>, unit |-> <<>>],
    [name |-> carrot, quantity |-> <<"2", "-", "3">>, unit |-> <<"g">>],
    [name |-> carrot, quantity |-> <<"1">>, unit |-> <<" ", "K", "G">>],
    [name |-> salt, quantity |-> <<>>, unit |-> <<>>],
    [name |-> salt, quantity |-> <<"1">>, unit |-> <<"t", "s", "p">>] }

\* the result lists of weight k: k records, or a failed or an empty entry
ResultLists(k) ==
  IF k = 1
  THEN [1..1 -> IngredientRecords]
         \cup { <<>>, <<ErrorMessage(Raise("ValueError", NotFoundText))>> }
  ELSE [1..k -> IngredientRecords]

RECURSIVE ListSeqs(_)
ListSeqs(n) ==
  IF n = 0 THEN {<<>>}
  ELSE UNION { { <<l>> \o rest : l \in ResultLists(k), rest \in ListSeqs(n - k) } :
               k \in 1..n }

DishLabel(i) == <<"d", Chr(48 + i)>>

ConsInputs(max) ==
  UNION { { [i \in 1..Len(ls) |-> [dish |-> DishLabel(i), ingredients |-> ls[i]]] :
            ls \in ListSeqs(n) } : n \in 1..max }

InitConsolidate ==
  /\ store = [k \in Keys |-> NoDoc]
  /\ pc = "consolidator"
  /\ fetches = 0
  /\ dish_names = <<>>
  /\ idx = 1
  /\ results = <<>>
  /\ cache_key = <<>>
  /\ translated = FALSE
  /\ collection = "None"
  /\ lookup = "none"
  /\ nresults = 0
  /\ cand = 1
  /\ searched = FALSE
  /\ pages = 0
  /\ structcall = "none"
  /\ ret = NoResult
  /\ reqSearches = [d \in DishNames |-> 0]
  /\ reqKeys = {}
  /\ reqZero = {}
  /\ firstSuccess = [k \in Keys |-> NoDoc]
  /\ savedSuccess = [k \in Keys |-> NoDoc]
  /\ all_ingredients \in ConsInputs(MaxRecords)
  /\ shopping_list = NotRun
  /\ first_list = NotRun
  /\ cpc = "ready"
  /\ user_input = <<>>
  /\ HarnessOff

\* consolidator.run(all_ingredients)
RunConsolidator ==
  /\ cpc = "ready"
  /\ shopping_list' = Run(all_ingredients)
  /\ first_list' = IF first_list = NotRun THEN shopping_list' ELSE first_list
  /\ cpc' = "done"
  /\ UNCHANGED << store, pc, requestVars, toolVars, ghostVars, all_ingredients,
                  user_input, harnessVars >>

\* the same entries, with entries i and i+1 in the other order
Reorder(i) ==
  /\ cpc = "done"
  /\ i < Len(all_ingredients)
  /\ all_ingredients' =
       [j \in 1..Len(all_ingredients) |->
          IF j = i THEN all_ingredients[i + 1]
          ELSE IF j = i + 1 THEN all_ingredients[i]
          ELSE all_ingredients[j]]
  /\ cpc' = "ready"
  /\ UNCHANGED << store, pc, requestVars, toolVars, ghostVars, shopping_list, first_list,
                  user_input, harnessVars >>

NextConsolidate ==
  \/ RunConsolidator
  \/ \E i \in 1..MaxRecords : Reorder(i)

SpecConsolidate == InitConsolidate /\ [][NextConsolidate]_vars

(***************************************************************************)
(* translate_ingredient_list and _find_ingredients_from_url on their own.   *)
(***************************************************************************)
\* no request is in progress
PipelineOff ==
  /\ store = [k \in Keys |-> NoDoc]
  /\ fetches = 0
  /\ dish_names = <<>>
  /\ idx = 1
  /\ results = <<>>
  /\ cache_key = <<>>
  /\ translated = FALSE
  /\ collection = "None"
  /\ lookup = "none"
  /\ nresults = 0
  /\ cand = 1
  /\ searched = FALSE
  /\ pages = 0
  /\ structcall = "none"
  /\ ret = NoResult
  /\ reqSearches = [d \in DishNames |-> 0]
  /\ reqKeys = {}
  /\ reqZero = {}
  /\ firstSuccess = [k \in Keys |-> NoDoc]
  /\ savedSuccess = [k \in Keys |-> NoDoc]
  /\ all_ingredients = <<>>
  /\ shopping_list = NotRun
  /\ first_list = NotRun
  /\ cpc = "off"
  /\ user_input = <<>>

\* lines in one argument of translate_ingredient_list
MaxLines == 3

TrLines == {tuz, su, blank, <<>>}

Batches ==
  {[raises |-> TRUE, fails |-> {}]}
    \cup {[raises |-> FALSE, fails |-> f] : f \in SUBSET {tuz, su}}

InitTranslate ==
  /\ PipelineOff
  /\ pc = "translator"
  /\ tr_input \in SeqsUpTo(TrLines, MaxLines)
  /\ tr_batch = NoBatch
  /\ tr_result = <<>>
  /\ tpc = "ready"
  /\ response = NoPage
  /\ extracted = NoDoc
  /\ epc = "off"

\* translate_ingredient_list(tr_input), the service doing b
TranslateCall(b) ==
  /\ tpc = "ready"
  /\ tr_batch' = b
  /\ tr_result' = TranslateIngredientList(tr_input, b)
  /\ tpc' = "done"
  /\ UNCHANGED << store, pc, requestVars, toolVars, ghostVars, consVars, tr_input,
                  response, extracted, epc >>

NextTranslate == \E b \in Batches : TranslateCall(b)

SpecTranslate == InitTranslate /\ [][NextTranslate]_vars

\* scripts, headings and sections on one page
MaxScripts == 2

MaxHeadings == 2

MaxSections == 1

ResponsePages(ms, mh, mc) ==
  {PageRequestException}
    \cup { [status |-> "ok", scripts |-> s, microdata |-> m, headings |-> h,
            sections |-> c] :
            s \in SeqsUpTo(Scripts, ms), m \in Microdata,
            h \in SeqsUpTo(Headings, mh), c \in SeqsUpTo(Sections, mc) }

InitExtract ==
  /\ PipelineOff
  /\ pc = "extractor"
  /\ tr_input = <<>>
  /\ tr_batch = NoBatch
  /\ tr_result = <<>>
  /\ tpc = "off"
  /\ response \in ResponsePages(MaxScripts, MaxHeadings, MaxSections)
  /\ extracted = NoDoc
  /\ epc = "ready"

\* _find_ingredients_from_url(url) for the page behind the URL
Extract ==
  /\ epc = "ready"
  /\ extracted' = FindIngredientsFromUrl(response)
  /\ epc' = "done"
  /\ UNCHANGED << store, pc, requestVars, toolVars, ghostVars, consVars, tr_input,
                  tr_batch, tr_result, tpc, response >>

NextExtract == Extract

SpecExtract == InitExtract /\ [][NextExtract]_vars

Occurrences(d) == Cardinality({i \in 1..Len(dish_names) : dish_names[i] = d})

\* C2, as stated: a dish name that occurs twice in one request is searched on
\* the web at most once in that request.
C2_Original ==
  pc = "returned" => \A d \in DishNames : Occurrences(d) >= 2 => reqSearches[d] <= 1

\* C3: no exception of a tool call leaves get_ingredients, and when
\* get_ingredients returns, every requested dish name has an entry.
C3_EveryDishAnswered ==
  /\ pc # "crashed"
  /\ pc = "returned" =>
       /\ idx = Len(dish_names) + 1
       /\ \A i \in 1..Len(dish_names) :
            \E j \in 1..Len(results) : results[j].dish = dish_names[i]

\* get_ingredients has returned: the first dish failed, a later one succeeded.
C3_Witness ==
  /\ pc = "returned"
  /\ Len(results) = 2
  /\ IsErrorMessage(results[1].ingredients[1])
  /\ ~IsStr(results[2].ingredients[1])

NotFoundEntry == <<ErrorMessage(Raise("ValueError", NotFoundText))>>

IsFailure(entry) == entry.ingredients # <<>> /\ IsStr(entry.ingredients[1])

SuccessOnly(d) == SelectSeq(d, LAMBDA entry : ~IsFailure(entry))

\* C4, as stated: after consolidation, every dish whose web search found
\* nothing has the "No recipe found" failure as its entry, and the consolidated
\* list is the one built from the successful entries alone.
C4_Original ==
  pc = "modify" =>
    /\ \A i \in 1..Len(results) :
         results[i].dish \in reqZero => results[i].ingredients = NotFoundEntry
    /\ shopping_list = Run(SuccessOnly(results))

\* C9, as stated: the result mapping has exactly one entry per cache key
\* computed in the request.
C9_Original == pc = "returned" => Len(results) = Cardinality(reqKeys)

\* C10, as stated: a candidate whose structuring call fails (it raises, or its
\* output is not an array of objects with a non-empty name) counts as empty,
\* and the loop goes on with the next candidate.
C10_Original ==
  [][(pc = "candidates" /\ pages' = pages + 1 /\ structcall' = "failed")
       => (pc' = "candidates" /\ cand' = cand + 1)]_vars

InSeq(l, item) == \E i \in 1..Len(l) : l[i] = item

\* Is v an ingredient record whose name is non-empty after trimming?
NamedRecord(v) == ~IsStr(v) /\ Strip(Get(v, "name")) # <<>>

AllNamed(l) == \A i \in 1..Len(l) : NamedRecord(l[i])

\* C11, as stated: every record of a list that a fetch returns, and every
\* record of a list in the recipe store, has a non-empty name after trimming.
C11_Original ==
  /\ \A k \in Keys : store[k].found => AllNamed(store[k].ingredients)
  /\ (pc = "tool_done" /\ ret.kind = "return") => AllNamed(ret.value)

\* Is the stored list in the format of an earlier schema, a list of strings?
Legacy(l) == \E i \in 1..Len(l) : IsStr(l[i])

\* C12, as stated: a stored value that is a list of plain strings is a cache
\* miss: no fetch ends with a hit of the store that returns such a value.
C12_Original == (pc = "tool_done" /\ lookup = "hit") => ~Legacy(ret.value)

\* C14, as stated: no web search and no page request is issued by a call that
\* has no connection to the recipe store.
C14_Original ==
  (pc \in {"candidates", "tool_done"} /\ (searched \/ pages > 0)) => collection = "ok"

\* C17, as stated: a candidate whose page request fails or whose page gives no
\* list is skipped and the loop goes on; the loop is left only with the
\* non-empty list of named records of a candidate, or, after the last
\* candidate, with the "could not be clearly found" failure.
C17_Original ==
  [][ /\ (pc = "candidates" /\ pages' = pages + 1 /\ structcall' = "none")
           => (pc' = "candidates" /\ cand' = cand + 1 /\ ret' = ret)
      /\ (pc = "candidates" /\ pc' = "tool_done")
           => \/ /\ ret'.kind = "return"
                 /\ ret'.value # <<>>
                 /\ AllNamed(ret'.value)
              \/ /\ cand > nresults
                 /\ ret' = Raise("ValueError", UnclearText) ]_vars

\* C18: the recipe store changes only in the step in which a fetch that
\* searched the web returns its list; what changes is the entry of that
\* fetch's cache key alone, which did not exist before and now holds the
\* returned list. A fetch that fails writes nothing, and an entry that exists
\* is never changed.
C18_StoreLifecycle ==
  [][ store' # store =>
        /\ pc = "candidates"
        /\ pc' = "tool_done"
        /\ searched
        /\ ret'.kind = "return"
        /\ \A k \in Keys :
             store'[k] # store[k] =>
               /\ k = cache_key
               /\ ~store[k].found
               /\ store'[k] = Doc(ret'.value) ]_vars

\* A fetch has written its list to the store, and a later fetch of the same
\* key has failed without touching it.
C18_Witness ==
  /\ pc = "tool_done"
  /\ ret.kind = "raise"
  /\ savedSuccess[cache_key].found
  /\ store[cache_key] = savedSuccess[cache_key]

\* the entries of list l that are item up to letter case
SameUpToCase(l, item) == {i \in 1..Len(l) : LowerStr(l[i]) = LowerStr(item)}

\* C20, as stated: when the user enters an entry of the list at the REMOVE
\* prompt, the loop goes on to the ADD prompt with a list without that entry;
\* when the user enters at the ADD prompt an item that is in the list up to
\* letter case, the loop goes on with a list that has it exactly once.
C20_Original ==
  [][ /\ (pc = "modify" /\ user_input' # <<>> /\ InSeq(shopping_list.list, user_input'))
           => (pc' = "modify_add" /\ ~InSeq(shopping_list'.list, user_input'))
      /\ (pc = "modify_add" /\ user_input' # <<>>
            /\ SameUpToCase(shopping_list.list, user_input') # {})
           => /\ pc' = "modify_done"
              /\ Cardinality(SameUpToCase(shopping_list'.list, user_input')) = 1 ]_vars

(***************************************************************************)
(* Properties of the consolidation (specification SpecConsolidate).         *)
(***************************************************************************)
RECURSIVE Flatten(_)
Flatten(lists) == IF lists = <<>> THEN <<>> ELSE Head(lists) \o Flatten(Tail(lists))

\* the ingredient records of the successful entries of the argument
SuccessRecords ==
  LET good == SuccessOnly(all_ingredients)
  IN Flatten([i \in 1..Len(good) |-> good[i].ingredients])

NormName(r) == Strip(LowerStr(Get(r, "name")))

GroupNames == {NormName(SuccessRecords[i]) : i \in 1..Len(SuccessRecords)} \ {<<>>}

Group(n) == SelectSeq(SuccessRecords, LAMBDA r : NormName(r) = n)

GroupUnits(n) == {Get(Group(n)[i], "unit") : i \in 1..Len(Group(n))}

\* every record of the group has a numeric quantity, and all have one and the
\* same unit
Mergeable(n) ==
  /\ \A i \in 1..Len(Group(n)) : DecimalLiteral(Get(Group(n)[i], "quantity"))
  /\ Cardinality(GroupUnits(n)) = 1
  /\ Strip(CHOOSE u \in GroupUnits(n) : TRUE) # <<>>

\* a quantity with at most one fractional digit, in tenths
Tenths(q) ==
  LET t == Strip(q)
      p == DotPos(t)
  IN IF p = 0 THEN 10 * DigitsVal(t)
     ELSE 10 * DigitsVal(SubSeq(t, 1, p - 1)) + DigitsVal(SubSeq(t, p + 1, Len(t)))

RECURSIVE SumTenths(_)
SumTenths(recs) ==
  IF recs = <<>> THEN 0 ELSE Tenths(Get(Head(recs), "quantity")) + SumTenths(Tail(recs))

\* a number of tenths as a decimal: 1500 is "150", 1505 is "150.5"
DecStr(t) ==
  IF t % 10 = 0 THEN IntStr(t \div 10)
  ELSE IntStr(t \div 10) \o <<".">> \o IntStr(t % 10)

InList(item) == \E i \in 1..Len(shopping_list.list) : shopping_list.list[i] = item

\* C5, as stated: a group whose records all have a numeric quantity and share
\* one unit gives the item "<sum> <unit> <Name>", as in "150 g Carrot".
C5_Original ==
  cpc = "done" =>
    \A n \in GroupNames :
      Mergeable(n) =>
        InList(DecStr(SumTenths(Group(n))) \o <<" ">>
                 \o (CHOOSE u \in GroupUnits(n) : TRUE) \o <<" ">> \o Capitalize(n))

\* C6, as stated: a group with a record whose quantity is empty or not
\* numeric, whose unit is missing, or whose unit differs from another's, gives
\* the capitalized name alone.
C6_Original ==
  cpc = "done" => \A n \in GroupNames : ~Mergeable(n) => InList(Capitalize(n))

\* the ingredient name of a list item: what follows its last blank
RECURSIVE ItemName(_)
ItemName(item) ==
  IF \E i \in 1..Len(item) : item[i] = " " THEN ItemName(Tail(item)) ELSE item

\* C7, as stated: the items of the list are in the order of their ingredient
\* names.
C7_Original ==
  cpc = "done" =>
    \A i, j \in 1..Len(shopping_list.list) :
      i < j => ~StrLess(ItemName(shopping_list.list[j]), ItemName(shopping_list.list[i]))

\* C8, as stated: the same entries in another iteration order give the same
\* list.
C8_Original == cpc = "done" => shopping_list = first_list

\* C19, as stated: run returns a list and raises nothing, also when a group
\* has a numeric quantity with a unit next to a numeric quantity without one.
C19_Original == cpc = "done" => shopping_list.exc = "none"

(***************************************************************************)
(* Properties of translate_ingredient_list (specification SpecTranslate).   *)
(***************************************************************************)
\* the line the result is to have at position i: the translation of line i,
\* or line i itself when its translation failed or the whole batch failed
ExpectedLine(i) ==
  IF tr_batch.raises \/ tr_input[i] \in tr_batch.fails THEN tr_input[i]
  ELSE TranslateLine(tr_input[i])

\* C13, as stated: the result has the length of the argument and at every
\* position the translation of the line at that position, or that line itself
\* when its translation or the whole batch failed.
C13_Original ==
  tpc = "done" =>
    /\ Len(tr_result) = Len(tr_input)
    /\ \A i \in 1..Len(tr_input) : tr_result[i] = ExpectedLine(i)

(***************************************************************************)
(* Properties of _find_ingredients_from_url (specification SpecExtract).    *)
(***************************************************************************)
\* the scripts of the page that hold a Recipe node with an ingredient field,
\* the type given as "Recipe" or as ["Recipe"]
RecipeBlocks ==
  { i \in 1..Len(response.scripts) :
      /\ response.scripts[i].kind = "json"
      /\ response.scripts[i].type \in {"Recipe", "[Recipe]"}
      /\ response.scripts[i].hasField
      /\ response.scripts[i].allStr }

HeadingWithList ==
  \E i \in 1..Len(response.headings) :
    response.headings[i].list /\ response.headings[i].items # <<>>

\* C15, as stated: on a page with a Recipe block that has an ingredient field
\* and with an "ingredients" heading followed by a list, the lines returned
\* are those of a Recipe block; and what is returned is the result of one
\* strategy alone.
C15_Original ==
  (epc = "done" /\ response.status = "ok") =>
    /\ (RecipeBlocks # {} /\ HeadingWithList) =>
         \E i \in RecipeBlocks : extracted = Doc(NonBlank(response.scripts[i].ings))
    /\ extracted.found =>
         extracted \in { JsonLd(response.scripts, 1), MicrodataList(response.microdata),
                         HeadingList(response.headings, 1), CssList(response.sections, 1) }

\* C16, as stated: what is returned is None or a list with at least one line,
\* all of its lines non-blank.
C16_Original ==
  epc = "done" =>
    \/ extracted = NoDoc
    \/ /\ extracted.found
       /\ extracted.ingredients # <<>>
       /\ NonBlank(extracted.ingredients) = extracted.ingredients

====
